---------------------------- MODULE Spec2Model ----------------------------
(***************************************************************************)
(* A model of runni.py: the aggregation transform process_data (a pure     *)
(* function of the input table and the window width) and the data          *)
(* acquisition get_csv with its time-expiring file cache.                  *)
(*                                                                         *)
(* Numbers.  pandas computes in binary floating point; the model computes  *)
(* in exact rationals <<numerator, denominator>> in lowest terms, so that  *)
(* 3.2 is <<16, 5>>.  A missing cell (NaN) is the empty tuple.             *)
(* Timestamps.  A timestamp is a number of half-days since an epoch: the   *)
(* date with day number d is the timestamp 2 * d, which lets the shift by  *)
(* window_width_days / 2.0 days be exact for an odd window width.          *)
(***************************************************************************)
EXTENDS Integers, Sequences, FiniteSets, TLC

VARIABLES
    df,        \* process_data: the input table, a sequence of rows
    pcd,       \* process_data: "input" before the call, "done" after it
    out,       \* process_data: the returned dict (returndict)
    rolled,    \* process_data: the three rolling results before the index shift
    now,       \* get_csv: the clock, time.time() in seconds
    files,     \* get_csv: the cache files of the temp directory, by path
    pr,        \* get_csv: each invocation's position, locals and record
    hist       \* get_csv: per cache file, who wrote it last and what

dvars == <<df, pcd, out, rolled>>
cvars == <<now, files, pr, hist>>
vars  == <<df, pcd, out, rolled, now, files, pr, hist>>

(***************************************************************************)
(* Bounds of the model.                                                    *)
(***************************************************************************)
MaxRows == 2       \* rows of the input table
MaxDay  == 3       \* dates of the input are day numbers 0 .. MaxDay
MaxW    == 3       \* window widths are 1 .. MaxW
MaxTicks == 5      \* the clock advances at most this many times

(***************************************************************************)
(* Rational arithmetic.                                                    *)
(***************************************************************************)
RECURSIVE GCD(_, _)
GCD(a, b) == IF b = 0 THEN a ELSE GCD(b, a % b)

Rat(n, d) == LET g == GCD(n, d) IN <<n \div g, d \div g>>
RatInt(n) == <<n, 1>>
RatAdd(a, b) == Rat(a[1] * b[2] + b[1] * a[2], a[2] * b[2])
RatMul(a, b) == Rat(a[1] * b[1], a[2] * b[2])
RatDiv(a, b) == Rat(a[1] * b[2], a[2] * b[1])

Null == <<>>
\* Arithmetic on cells: a NaN operand gives NaN.
CellAdd(a, b) == IF a = Null \/ b = Null THEN Null ELSE RatAdd(a, b)
CellMul(a, b) == IF a = Null \/ b = Null THEN Null ELSE RatMul(a, b)
CellDiv(a, b) == IF a = Null \/ b = Null THEN Null ELSE RatDiv(a, b)

\* The timestamp (in half-days) of the date with day number d.
Day(d) == 2 * d

(***************************************************************************)
(* The input table: the columns date, km, min, sec of the CSV.             *)
(***************************************************************************)
KmVals  == {Null, Rat(32, 10), Rat(45, 10)}
MinVals == {Null, RatInt(16)}
SecVals == {RatInt(30)}
Rows    == [date : 0 .. MaxDay, km : KmVals, min : MinVals, sec : SecVals]
Tables  == UNION {[1 .. n -> Rows] : n \in 0 .. MaxRows}
Widths  == 1 .. MaxW

(***************************************************************************)
(* process_data, step by step.                                             *)
(***************************************************************************)
\* df[df.km.notnull()]
NotNullKm(t) == SelectSeq(t, LAMBDA r : r.km # Null)

\* df.index = pd.to_datetime(df["date"]): each row gets its timestamp.
SetIndex(t) == [i \in 1 .. Len(t) |->
                  [t |-> Day(t[i].date), km |-> t[i].km,
                   min |-> t[i].min, sec |-> t[i].sec]]

\* df.sort_index(): rows from past to future.
RECURSIVE InsertSorted(_, _)
InsertSorted(s, r) ==
    IF s = <<>> THEN <<r>>
    ELSE IF s[Len(s)].t <= r.t THEN Append(s, r)
    ELSE Append(InsertSorted(SubSeq(s, 1, Len(s) - 1), r), s[Len(s)])

RECURSIVE SortIndex(_)
SortIndex(t) ==
    IF t = <<>> THEN <<>>
    ELSE InsertSorted(SortIndex(SubSeq(t, 1, Len(t) - 1)), t[Len(t)])

\* km_per_run = df["km"]
KmPerRun(t) == [i \in 1 .. Len(t) |-> [t |-> t[i].t, v |-> t[i].km]]

\* hours_per_run = (60 * df["min"] + df["sec"]) / 3600
HoursPerRun(t) ==
    [i \in 1 .. Len(t) |->
        [t |-> t[i].t,
         v |-> CellDiv(CellAdd(CellMul(RatInt(60), t[i].min), t[i].sec),
                       RatInt(3600))]]

\* avgspeed_per_run = hours_per_run * 60 / km_per_run
AvgSpeedPerRun(hours, km) ==
    [i \in 1 .. Len(hours) |->
        [t |-> hours[i].t,
         v |-> CellDiv(CellMul(hours[i].v, RatInt(60)), km[i].v)]]

\* The sum and the number of the non-NaN values of a sequence of cells.
RECURSIVE SumCells(_)
SumCells(vs) ==
    IF vs = <<>> THEN RatInt(0)
    ELSE LET rest == SumCells(Tail(vs))
         IN  IF Head(vs) = Null THEN rest ELSE RatAdd(Head(vs), rest)

RECURSIVE CountCells(_)
CountCells(vs) ==
    IF vs = <<>> THEN 0
    ELSE CountCells(Tail(vs)) + (IF Head(vs) = Null THEN 0 ELSE 1)

\* The aggregations: sum() skips NaN and is 0 of nothing; mean() skips NaN
\* and is NaN of nothing.
AggSum(vs)  == SumCells(vs)
AggMean(vs) == IF CountCells(vs) = 0 THEN Null
               ELSE RatDiv(SumCells(vs), RatInt(CountCells(vs)))

\* The values of the entries of s with timestamp k, in order.
RECURSIVE ValuesAt(_, _)
ValuesAt(s, k) ==
    IF s = <<>> THEN <<>>
    ELSE IF Head(s).t = k THEN <<Head(s).v>> \o ValuesAt(Tail(s), k)
    ELSE ValuesAt(Tail(s), k)

\* The distinct timestamps of a sorted series, in order.
RECURSIVE GroupKeys(_)
GroupKeys(s) ==
    IF s = <<>> THEN <<>>
    ELSE LET rest == GroupKeys(Tail(s))
         IN  IF rest # <<>> /\ Head(rest) = Head(s).t THEN rest
             ELSE <<Head(s).t>> \o rest

\* A group-by that keeps only the last run of each day.
GroupByLast(s) ==
    LET ks == GroupKeys(s)
    IN  [i \in 1 .. Len(ks) |->
            [t |-> ks[i],
             v |-> ValuesAt(s, ks[i])[Len(ValuesAt(s, ks[i]))]]]

\* s.groupby(s.index).sum()
GroupBySum(s) ==
    LET ks == GroupKeys(s)
    IN  [i \in 1 .. Len(ks) |-> [t |-> ks[i], v |-> AggSum(ValuesAt(s, ks[i]))]]

\* A group-by that sums where the mean is meant.
GroupByMeanAsSum(s) ==
    LET ks == GroupKeys(s)
    IN  [i \in 1 .. Len(ks) |-> [t |-> ks[i], v |-> AggSum(ValuesAt(s, ks[i]))]]

\* s.groupby(s.index).mean()
GroupByMean(s) ==
    LET ks == GroupKeys(s)
    IN  [i \in 1 .. Len(ks) |-> [t |-> ks[i], v |-> AggMean(ValuesAt(s, ks[i]))]]

\* An up-sampling that inserts nothing.
AsFreqNoFill(s, fill) == s

\* s.asfreq("1D", fill_value=fill): one entry per day from the first to the
\* last timestamp of s; an entry s lacks gets fill; an empty s stays empty.
AsFreq(s, fill) ==
    IF s = <<>> THEN <<>>
    ELSE LET first == s[1].t
             n     == ((s[Len(s)].t - first) \div Day(1)) + 1
         IN  [i \in 1 .. n |->
                LET ts == first + Day(i - 1)
                IN  [t |-> ts,
                     v |-> IF \E j \in 1 .. Len(s) : s[j].t = ts
                           THEN s[CHOOSE j \in 1 .. Len(s) : s[j].t = ts].v
                           ELSE fill]]

\* A window closed on both sides: w + 1 days.
RECURSIVE WindowClosedBoth(_, _, _)
WindowClosedBoth(s, ts, w) ==
    IF s = <<>> THEN <<>>
    ELSE (IF ts - Day(w) <= Head(s).t /\ Head(s).t <= ts
          THEN <<Head(s).v>> ELSE <<>>) \o WindowClosedBoth(Tail(s), ts, w)

\* The values of s inside the window "<w>D" whose right edge is the timestamp
\* ts: those with ts - w days < t <= ts (closed on the right only).
RECURSIVE Window(_, _, _)
Window(s, ts, w) ==
    IF s = <<>> THEN <<>>
    ELSE (IF ts - Day(w) < Head(s).t /\ Head(s).t <= ts
          THEN <<Head(s).v>> ELSE <<>>) \o Window(Tail(s), ts, w)

\* s.rolling(window="<w>D").sum() and .mean(): min_periods is 1 for an offset
\* window, so a window without any non-NaN value gives NaN.
RollingSum(s, w) ==
    [i \in 1 .. Len(s) |->
        [t |-> s[i].t,
         v |-> IF CountCells(Window(s, s[i].t, w)) = 0 THEN Null
               ELSE AggSum(Window(s, s[i].t, w))]]

RollingMean(s, w) ==
    [i \in 1 .. Len(s) |->
        [t |-> s[i].t, v |-> AggMean(Window(s, s[i].t, w))]]

\* A normalisation to km/day that forgets the factor 7.
PerWeekPerDay(s, w) ==
    [i \in 1 .. Len(s) |-> [t |-> s[i].t, v |-> CellDiv(s[i].v, RatInt(w))]]

\* series / (window_width_days / 7.0)
PerWeek(s, w) ==
    [i \in 1 .. Len(s) |-> [t |-> s[i].t, v |-> CellDiv(s[i].v, Rat(w, 7))]]

\* An offset of window_width_days // 2 whole days.
OffsetFloor(w) == Day(w \div 2)

\* offset = pd.DateOffset(days=window_width_days / 2.0), in half-days.
Offset(w) == Day(w) \div 2

\* series.index = series.index - offset
ShiftIndex(s, w) ==
    [i \in 1 .. Len(s) |-> [t |-> s[i].t - Offset(w), v |-> s[i].v]]

\* The locals of process_data before the index shift (lines 46-136).
Locals(table, w) ==
    LET sorted == SortIndex(SetIndex(NotNullKm(table)))
        km1    == KmPerRun(sorted)
        hours1 == HoursPerRun(sorted)
        speed1 == AvgSpeedPerRun(hours1, km1)
        km     == AsFreq(GroupBySum(km1), RatInt(0))
        hours  == AsFreq(GroupBySum(hours1), RatInt(0))
        speed  == AsFreq(GroupByMean(speed1), Null)
    IN  [km_per_run        |-> km,
         hours_per_run     |-> hours,
         avgspeed_per_run  |-> speed,
         km_per_week       |-> PerWeek(RollingSum(km, w), w),
         hours_per_week    |-> PerWeek(RollingSum(hours, w), w),
         avgspeed_per_week |-> RollingMean(speed, w),
         window_width_days |-> w]

\* Lines 146-163: the three weekly series get the shifted index, and the
\* locals are returned as a dict.
Return(l) ==
    [l EXCEPT !.km_per_week       = ShiftIndex(l.km_per_week, l.window_width_days),
              !.hours_per_week    = ShiftIndex(l.hours_per_week, l.window_width_days),
              !.avgspeed_per_week = ShiftIndex(l.avgspeed_per_week, l.window_width_days)]

\* process_data(df, opts): the returned dict.
process_data(table, w) == Return(Locals(table, w))

\* The dict before process_data has run.
NoResult == [km_per_run |-> <<>>, hours_per_run |-> <<>>,
             avgspeed_per_run |-> <<>>, km_per_week |-> <<>>,
             hours_per_week |-> <<>>, avgspeed_per_week |-> <<>>,
             window_width_days |-> 0]

(***************************************************************************)
(* get_csv: the acquisition with its file cache.                           *)
(*                                                                         *)
(* A text is a sequence of code points and a file holds a sequence of      *)
(* bytes.  The texts of the model have code points below 2048, which UTF-8 *)
(* encodes in one or two bytes.                                            *)
(***************************************************************************)
EncodeCp(c) == IF c < 128 THEN <<c>>
               ELSE <<192 + (c \div 64), 128 + (c % 64)>>

\* text.encode("utf-8")
RECURSIVE Encode(_)
Encode(text) ==
    IF text = <<>> THEN <<>> ELSE EncodeCp(Head(text)) \o Encode(Tail(text))

\* bytes.decode("utf-8"): the text, or ok = FALSE for a UnicodeDecodeError (a
\* lead byte without its continuation byte, a stray continuation byte).
RECURSIVE Decode(_)
Decode(bytes) ==
    IF bytes = <<>> THEN [ok |-> TRUE, text |-> <<>>]
    ELSE LET b == Head(bytes)
         IN  IF b < 128
             THEN LET r == Decode(Tail(bytes))
                  IN  [ok |-> r.ok, text |-> <<b>> \o r.text]
             ELSE IF /\ 194 <= b /\ b < 224 /\ Len(bytes) >= 2
                     /\ 128 <= bytes[2] /\ bytes[2] < 192
             THEN LET r == Decode(Tail(Tail(bytes)))
                  IN  [ok |-> r.ok,
                       text |-> <<(b - 192) * 64 + (bytes[2] - 128)>> \o r.text]
             ELSE [ok |-> FALSE, text |-> <<>>]

\* The bodies a response can have: empty, "a" and "éa".
Texts == {<<>>, <<97>>, <<233, 97>>}

\* The environment: RUNNI_GSHEET_KEY unset, or set to a key.  Key1 and Key2
\* share their first five characters; BadKey is a key that names no document,
\* which get_csv has no way to tell.
Missing   == <<0>>
Key1      == <<1, 2, 3, 4, 5, 6>>
Key2      == <<1, 2, 3, 4, 5, 7>>
BadKey    == <<9>>
EnvValues == {Missing, Key1, Key2, BadKey}

\* A lookup that falls back on a default key, as os.environ.get would.
EnvLookupDefault(e) == [ok |-> TRUE, key |-> IF e = Missing THEN BadKey ELSE e]

\* os.environ["RUNNI_GSHEET_KEY"]: the key, or a KeyError.
EnvLookup(e) == IF e = Missing THEN [ok |-> FALSE, key |-> <<>>]
                ELSE [ok |-> TRUE, key |-> e]

\* cachepath: the temp directory's f"runni-{dockey[:5]}.csv.cache", named
\* here by dockey[:5].
CachePath(k) == SubSeq(k, 1, IF Len(k) < 5 THEN Len(k) ELSE 5)
Paths == {CachePath(k) : k \in EnvValues \ {Missing}}

maxage_minutes == 10

\* A freshness check that still accepts a file of exactly the maximum age.
FreshInclusive(age) == age <= 60 * maxage_minutes

\* time.time() - os.stat(cachepath).st_mtime < 60 * maxage_minutes
Fresh(age) == age < 60 * maxage_minutes

\* The clock advances by half the maximum age at a time.
TickSeconds == (60 * maxage_minutes) \div 2

\* What requests.get(url) gives: an exception (status 0 stands for a
\* connection error), or a response with a status and a body.  The answer is
\* the server's: the code accepts any body that comes with a success status,
\* whatever the key.
Statuses == {200, 404, 503}
Responses ==
    {[status |-> 0, text |-> <<>>]} \cup [status : Statuses, text : Texts]

\* A status check that is left out.
NeverRaises(status) == FALSE

\* resp.raise_for_status() raises for the status codes 400 .. 599.
RaisesForStatus(status) == 400 <= status /\ status < 600

\* An open for writing that keeps the content, as the mode "r+b" would.
KeepContent(bytes) == bytes

\* open(cachepath, "wb") truncates the file.
Truncate(bytes) == <<>>

\* A write of chunk at the offset off of a file holding bytes; a hole left
\* by an offset beyond the end reads as zero bytes.
WriteAt(bytes, off, chunk) ==
    LET n == IF Len(bytes) > off + Len(chunk) THEN Len(bytes)
             ELSE off + Len(chunk)
    IN  [i \in 1 .. n |->
            IF off < i /\ i <= off + Len(chunk) THEN chunk[i - off]
            ELSE IF i <= Len(bytes) THEN bytes[i] ELSE 0]

Procs  == {1, 2}
NoFile == [exists |-> FALSE, mtime |-> 0, bytes |-> <<>>]
NoResp == [status |-> 0, text |-> <<>>]

\* An invocation before it starts.  pc is the position in get_csv; env,
\* dockey, cachepath, resp and wpos (the offset of the file opened for
\* writing) are the invocation's own; ret and err are what it returns or
\* raises.  The rest records what the invocation did: reqs counts its calls
\* of requests.get, touched the operations it made on the cache file, age
\* the file's age at the freshness check (-1: no file), before the file as
\* the invocation found it, prev how the previous invocation of the process
\* got its text.
Idle == [pc |-> "idle", env |-> Missing, dockey |-> <<>>, cachepath |-> <<>>,
         resp |-> NoResp, ret |-> <<>>, err |-> "", wpos |-> 0, reqs |-> 0,
         touched |-> {}, age |-> -1, before |-> NoFile, via |-> "",
         prev |-> ""]

\* Per cache file: owner is the text the writer that opened it last means to
\* leave, ownerKey that writer's key, mixed whether that writer opened it
\* while another had it open for writing, last the text of the writer that
\* opened or wrote it most recently, returned the text that a writer of the
\* file returned most recently.
NoHist == [owner |-> <<>>, ownerKey |-> <<>>, mixed |-> FALSE, last |-> <<>>,
           returned |-> <<>>]

\* The invocations that have the file at path open for writing.
Writers(path) == {q \in Procs : pr[q].pc = "write" /\ pr[q].cachepath = path}

InitCache ==
    /\ now = 0
    /\ files = [f \in Paths |-> NoFile]
    /\ pr = [p \in Procs |-> Idle]
    /\ hist = [f \in Paths |-> NoHist]

\* Lines 252-254: a new invocation of get_csv reads the environment.
Invoke(p, e) ==
    /\ pr[p].pc \in {"idle", "done", "failed"}
    /\ LET r == EnvLookup(e)
           path == CachePath(r.key)
       IN  pr' = [pr EXCEPT ![p] =
                    IF r.ok
                    THEN [Idle EXCEPT !.pc = "exists", !.env = e,
                                      !.dockey = r.key, !.cachepath = path,
                                      !.before = files[path],
                                      !.prev = pr[p].via]
                    ELSE [Idle EXCEPT !.pc = "failed", !.env = e,
                                      !.err = "KeyError",
                                      !.prev = pr[p].via]]
    /\ UNCHANGED <<now, files, hist, dvars>>

\* Line 259: os.path.exists(cachepath)
Exists(p) ==
    /\ pr[p].pc = "exists"
    /\ pr' = [pr EXCEPT ![p].pc = IF files[pr[p].cachepath].exists
                                  THEN "stat" ELSE "get",
                        ![p].touched = @ \cup {"exists"}]
    /\ UNCHANGED <<now, files, hist, dvars>>

\* Line 260: the freshness check on the file's modification time.
Stat(p) ==
    /\ pr[p].pc = "stat"
    /\ LET age == now - files[pr[p].cachepath].mtime
       IN  pr' = [pr EXCEPT ![p].pc = IF Fresh(age) THEN "read" ELSE "get",
                            ![p].age = age,
                            ![p].touched = @ \cup {"stat"}]
    /\ UNCHANGED <<now, files, hist, dvars>>

\* Lines 261-263 and 277: the file is read, decoded and returned.
ReadCache(p) ==
    /\ pr[p].pc = "read"
    /\ LET d == Decode(files[pr[p].cachepath].bytes)
       IN  pr' = [pr EXCEPT ![p].pc = IF d.ok THEN "done" ELSE "failed",
                            ![p].ret = d.text,
                            ![p].err = IF d.ok THEN "" ELSE "UnicodeDecodeError",
                            ![p].via = "cache",
                            ![p].touched = @ \cup {"read"}]
    /\ UNCHANGED <<now, files, hist, dvars>>

\* Line 268: requests.get(url); an exception propagates.
Get(p, r) ==
    /\ pr[p].pc = "get"
    /\ r \in Responses
    /\ pr' = [pr EXCEPT ![p].pc = IF r.status = 0 THEN "failed" ELSE "status",
                        ![p].err = IF r.status = 0 THEN "ConnectionError" ELSE "",
                        ![p].resp = r,
                        ![p].via = "web",
                        ![p].reqs = @ + 1]
    /\ UNCHANGED <<now, files, hist, dvars>>

\* Line 269: resp.raise_for_status()
RaiseForStatus(p) ==
    /\ pr[p].pc = "status"
    /\ pr' = [pr EXCEPT ![p].pc = IF RaisesForStatus(pr[p].resp.status)
                                  THEN "failed" ELSE "open",
                        ![p].err = IF RaisesForStatus(pr[p].resp.status)
                                   THEN "HTTPError" ELSE ""]
    /\ UNCHANGED <<now, files, hist, dvars>>

\* Line 271: open(cachepath, "wb") creates or truncates the file.
OpenWrite(p) ==
    /\ pr[p].pc = "open"
    /\ LET path == pr[p].cachepath
       IN  /\ files' = [files EXCEPT ![path] =
                          [exists |-> TRUE, mtime |-> now,
                           bytes |-> Truncate(files[path].bytes)]]
           /\ hist' = [hist EXCEPT ![path] =
                          [hist[path] EXCEPT
                              !.owner = pr[p].resp.text,
                              !.ownerKey = pr[p].dockey,
                              !.mixed = Writers(path) # {},
                              !.last = pr[p].resp.text]]
    /\ pr' = [pr EXCEPT ![p].pc = "write", ![p].wpos = 0,
                        ![p].touched = @ \cup {"open"}]
    /\ UNCHANGED <<now, dvars>>

\* The sizes of the next piece of the write of p: up to all that is left; an
\* empty text is written as one piece of no bytes.
ChunkSizes(p) ==
    IF Encode(pr[p].resp.text) = <<>> THEN {0}
    ELSE 1 .. (Len(Encode(pr[p].resp.text)) - pr[p].wpos)

\* Line 273: f.write(resp.text.encode("utf-8")), which reaches the file in
\* one piece or in several; the last piece is followed by the close.  A
\* write of no bytes leaves the file and its modification time alone.
Write(p, n) ==
    /\ pr[p].pc = "write"
    /\ LET path == pr[p].cachepath
           data == Encode(pr[p].resp.text)
           off  == pr[p].wpos
       IN  /\ n \in ChunkSizes(p)
           /\ files' = IF n = 0 THEN files
                       ELSE [files EXCEPT ![path] =
                          [exists |-> TRUE, mtime |-> now,
                           bytes |-> WriteAt(files[path].bytes, off,
                                             SubSeq(data, off + 1, off + n))]]
           /\ pr' = [pr EXCEPT ![p].pc = IF off + n = Len(data)
                                         THEN "return" ELSE "write",
                               ![p].wpos = off + n,
                               ![p].touched = @ \cup {"write"}]
           /\ hist' = IF n = 0 THEN hist
                      ELSE [hist EXCEPT ![path].last = pr[p].resp.text]
    /\ UNCHANGED <<now, dvars>>

\* Lines 275 and 277: resp.text is returned.
ReturnText(p) ==
    /\ pr[p].pc = "return"
    /\ pr' = [pr EXCEPT ![p].pc = "done", ![p].ret = pr[p].resp.text]
    /\ hist' = [hist EXCEPT ![pr[p].cachepath].returned = pr[p].resp.text]
    /\ UNCHANGED <<now, files, dvars>>

\* Time passes.
Tick ==
    /\ now + TickSeconds <= MaxTicks * TickSeconds
    /\ now' = now + TickSeconds
    /\ UNCHANGED <<files, pr, hist, dvars>>

InitAcquire ==
    /\ df = <<>>
    /\ pcd = "input"
    /\ out = NoResult
    /\ rolled = NoResult
    /\ InitCache

\* One invocation after the other, as the script is meant to be used.
NextSeq ==
    \/ \E e \in EnvValues : Invoke(1, e)
    \/ Exists(1)
    \/ Stat(1)
    \/ ReadCache(1)
    \/ \E r \in Responses : Get(1, r)
    \/ RaiseForStatus(1)
    \/ OpenWrite(1)
    \/ \E n \in ChunkSizes(1) : Write(1, n)
    \/ ReturnText(1)
    \/ Tick

SpecSeq == InitAcquire /\ [][NextSeq]_vars

\* Two invocations at once, each made once.
NextRace ==
    \/ \E p \in Procs : \E e \in EnvValues : pr[p].pc = "idle" /\ Invoke(p, e)
    \/ \E p \in Procs : Exists(p)
    \/ \E p \in Procs : Stat(p)
    \/ \E p \in Procs : ReadCache(p)
    \/ \E p \in Procs : \E r \in Responses : Get(p, r)
    \/ \E p \in Procs : RaiseForStatus(p)
    \/ \E p \in Procs : OpenWrite(p)
    \/ \E p \in Procs : \E n \in ChunkSizes(p) : Write(p, n)
    \/ \E p \in Procs : ReturnText(p)
    \/ Tick

SpecRace == InitAcquire /\ [][NextRace]_vars

(***************************************************************************)
(* process_data as a specification: any table in, the dict out.           *)
(***************************************************************************)
InitData ==
    /\ df \in Tables
    /\ pcd = "input"
    /\ out = NoResult
    /\ rolled = NoResult
    /\ InitCache

ProcessData(w) ==
    /\ pcd = "input"
    /\ pcd' = "done"
    /\ \E l \in {Locals(df, w)} : rolled' = l /\ out' = Return(l)
    /\ UNCHANGED <<df, cvars>>

NextData == \E w \in Widths : ProcessData(w)

SpecData == InitData /\ [][NextData]_vars


(***************************************************************************)
(* What the claims speak of, stated on the input table itself.             *)
(***************************************************************************)
Done     == pcd = "done"
RunIdx   == {i \in 1 .. Len(df) : df[i].km # Null}
RunDays  == {df[i].date : i \in RunIdx}
FirstDay == CHOOSE d \in RunDays : \A e \in RunDays : d <= e
LastDay  == CHOOSE d \in RunDays : \A e \in RunDays : e <= d
Span     == IF RunDays = {} THEN {} ELSE FirstDay .. LastDay
RunsOn(d) == {i \in RunIdx : df[i].date = d}

\* The positions of the series s that carry the timestamp ts.
At(s, ts) == {i \in 1 .. Len(s) : s[i].t = ts}

\* The sum of the km values of the rows S of the input.
RECURSIVE KmOfRows(_)
KmOfRows(S) ==
    IF S = {} THEN RatInt(0)
    ELSE LET i == CHOOSE j \in S : TRUE
         IN  RatAdd(df[i].km, KmOfRows(S \ {i}))

\* The speed of row i in minutes per km, NaN without a duration.
SpeedOfRow(i) ==
    IF df[i].min = Null \/ df[i].sec = Null THEN Null
    ELSE RatDiv(RatAdd(df[i].min, RatDiv(df[i].sec, RatInt(60))), df[i].km)

Timed(d) == {i \in RunsOn(d) : SpeedOfRow(i) # Null}

RECURSIVE SpeedOfRows(_)
SpeedOfRows(S) ==
    IF S = {} THEN RatInt(0)
    ELSE LET i == CHOOSE j \in S : TRUE
         IN  RatAdd(SpeedOfRow(i), SpeedOfRows(S \ {i}))

\* The duration of the rows S in minutes.
RECURSIVE MinutesOfRows(_)
MinutesOfRows(S) ==
    IF S = {} THEN RatInt(0)
    ELSE LET i == CHOOSE j \in S : TRUE
         IN  RatAdd(RatAdd(df[i].min, RatDiv(df[i].sec, RatInt(60))),
                    MinutesOfRows(S \ {i}))

\* C1: after process_data, km_per_run holds for every date d from the
\* earliest to the latest run date the sum of the km values of the input rows
\* that have a km value and the date d, which is 0 for a date without a run.
C1_DailySum ==
    Done => \A d \in Span :
               /\ At(out.km_per_run, Day(d)) # {}
               /\ \A i \in At(out.km_per_run, Day(d)) :
                     out.km_per_run[i].v = KmOfRows(RunsOn(d))

\* A day with two runs of 3.2 km and 4.5 km, given in either order, carries
\* 7.7 km.
C1_Witness ==
    /\ Done
    /\ \E d \in Span, i, j \in RunIdx :
          /\ i # j /\ RunsOn(d) = {i, j}
          /\ df[i].km = Rat(32, 10) /\ df[j].km = Rat(45, 10)
          /\ \E k \in At(out.km_per_run, Day(d)) :
                out.km_per_run[k].v = Rat(77, 10)

\* The series s has exactly the dates FirstDay .. LastDay, each once, in order.
OnePerDay(s) ==
    /\ Len(s) = Cardinality(Span)
    /\ \A i \in 1 .. Len(s) : s[i].t = Day(FirstDay + i - 1)

\* C2: for an input with a run, each regularized daily series has exactly
\* one entry for every date from the earliest to the latest run date, no date
\* skipped, none twice, none outside.
C2_OnePerDay ==
    Done /\ RunDays # {} =>
        /\ OnePerDay(out.km_per_run)
        /\ OnePerDay(out.hours_per_run)
        /\ OnePerDay(out.avgspeed_per_run)

\* Two runs given newest first, with days without a run between them.
C2_Witness ==
    /\ Done
    /\ \E d \in Span : RunsOn(d) = {}
    /\ \E i, j \in RunIdx : i < j /\ df[i].date > df[j].date
    /\ Len(out.km_per_run) > Cardinality(RunDays)
    /\ \E i \in 1 .. Len(out.avgspeed_per_run) : out.avgspeed_per_run[i].v = Null

W == out.window_width_days

\* The days d - W + 1 .. d all lie in the span and all carry the value v.
ConstantWindow(d, v) ==
    \A e \in (d - W + 1) .. d :
        /\ e \in Span
        /\ \A i \in At(out.km_per_run, Day(e)) : out.km_per_run[i].v = v

\* C3: for a window whose W days lie inside a stretch of the daily distance
\* series of constant value v, the weekly distance reported for that window,
\* at the right edge less W / 2 days, is 7 * v.
C3_ConstantWindow ==
    Done => \A d \in Span :
               \A v \in {out.km_per_run[i].v : i \in 1 .. Len(out.km_per_run)} :
               ConstantWindow(d, v) =>
                  /\ At(out.km_per_week, Day(d) - Offset(W)) # {}
                  /\ \A i \in At(out.km_per_week, Day(d) - Offset(W)) :
                        out.km_per_week[i].v = RatMul(RatInt(7), v)

\* A window of at least two days over a constant non-zero stretch.
C3_Witness ==
    /\ Done /\ W >= 2
    /\ \E d \in Span : /\ ConstantWindow(d, Rat(32, 10))
                       /\ \E i \in At(out.km_per_week, Day(d) - Offset(W)) :
                             out.km_per_week[i].v = Rat(224, 10)

\* The series s is the series r with every timestamp W / 2 days earlier
\* (twice the difference is W days), values and order kept.
ShiftedBy(s, r) ==
    /\ Len(s) = Len(r)
    /\ \A i \in 1 .. Len(s) : /\ 2 * (r[i].t - s[i].t) = Day(W)
                              /\ s[i].v = r[i].v

\* C4: for every window width W, even or odd, each weekly series returned
\* has the index of the right-aligned rolling computation shifted earlier by
\* exactly W / 2 days, values and order unchanged.
C4_Shift ==
    Done => /\ ShiftedBy(out.km_per_week, rolled.km_per_week)
            /\ ShiftedBy(out.hours_per_week, rolled.hours_per_week)
            /\ ShiftedBy(out.avgspeed_per_week, rolled.avgspeed_per_week)

\* An odd window width over a series of several days.
C4_Witness ==
    /\ Done /\ W % 2 = 1 /\ W > 1
    /\ Len(out.km_per_week) >= 2
    /\ out.km_per_week[1].t = Day(FirstDay) - W

\* C7: for every date with a run that has a speed, avgspeed_per_run is the
\* arithmetic mean of the speeds of the runs of that date, each the run's
\* minutes divided by the run's km; runs without a duration have no speed.
C7_MeanOfRatios ==
    Done => \A d \in Span :
               /\ At(out.avgspeed_per_run, Day(d)) # {}
               /\ \A i \in At(out.avgspeed_per_run, Day(d)) :
                     out.avgspeed_per_run[i].v =
                        IF Timed(d) = {} THEN Null
                        ELSE RatDiv(SpeedOfRows(Timed(d)),
                                    RatInt(Cardinality(Timed(d))))

\* Two timed runs on one day whose mean speed differs from the day's total
\* duration divided by the day's total distance.
C7_Witness ==
    /\ Done
    /\ \E d \in Span :
          /\ Cardinality(Timed(d)) = 2 /\ RunsOn(d) = Timed(d)
          /\ \E i \in At(out.avgspeed_per_run, Day(d)) :
                /\ out.avgspeed_per_run[i].v # Null
                /\ out.avgspeed_per_run[i].v #
                      RatDiv(MinutesOfRows(RunsOn(d)), KmOfRows(RunsOn(d)))

\* The runs of the W calendar days ending at d.
RunsInWindow(d) == {i \in RunIdx : d - W < df[i].date /\ df[i].date <= d}

\* C8: for every date d of the daily series the weekly distance series has
\* exactly one entry, at d less W / 2 days, whose value is the sum of the
\* daily distances of the W calendar days d - W + 1 .. d divided by W / 7;
\* days before the first run add nothing and the divisor stays W / 7.
C8_RollingWeek ==
    Done => /\ Len(out.km_per_week) = Cardinality(Span)
            /\ \A d \in Span :
                  /\ Cardinality(At(out.km_per_week, Day(d) - Offset(W))) = 1
                  /\ \A i \in At(out.km_per_week, Day(d) - Offset(W)) :
                        out.km_per_week[i].v =
                           RatDiv(KmOfRows(RunsInWindow(d)), Rat(W, 7))

\* A window that reaches before the first run date, and a window that drops
\* a run older than W days.
C8_Witness ==
    /\ Done /\ W >= 2
    /\ \E d \in Span : d - W + 1 < FirstDay
    /\ \E d \in Span : /\ d - W + 1 > FirstDay
                       /\ RunsInWindow(d) # RunIdx
                       /\ RunsInWindow(d) # {}


(***************************************************************************)
(* The claims about get_csv.                                               *)
(***************************************************************************)
File(p) == files[pr[p].cachepath]
\* The invocation p found a cache file younger than ten minutes.
FoundFresh(p) == 0 <= pr[p].age /\ pr[p].age < 600
WroteCache(p) == pr[p].touched \cap {"open", "write"} # {}

\* C5: with one invocation after the other, an acquisition that finds the
\* cache file less than 10 minutes old sends no HTTP request, leaves the file
\* alone and returns what the acquisition of the same key that wrote the file
\* returned; an acquisition that finds no file, or one whose age has reached
\* 10 minutes, sends one HTTP GET and, given a response, leaves exactly that
\* response in the file and returns it.
C5_CacheTTL ==
    \A p \in Procs :
        /\ pr[p].pc = "done" /\ FoundFresh(p) =>
              /\ pr[p].reqs = 0
              /\ ~WroteCache(p)
              /\ File(p) = pr[p].before
              /\ hist[pr[p].cachepath].ownerKey = pr[p].dockey =>
                    pr[p].ret = hist[pr[p].cachepath].returned
        /\ pr[p].pc = "done" /\ ~FoundFresh(p) =>
              /\ pr[p].reqs = 1
              /\ File(p).exists
              /\ File(p).bytes = Encode(pr[p].resp.text)
              /\ pr[p].ret = pr[p].resp.text
        /\ pr[p].pc = "failed" /\ pr[p].age >= 600 => pr[p].reqs = 1

\* An acquisition that found the cache expired and replaced its content, in
\* a process whose acquisition before was served from the cache.
C5_Witness ==
    /\ pr[1].pc = "done" /\ pr[1].age >= 600 /\ pr[1].reqs = 1
    /\ pr[1].prev = "cache"
    /\ pr[1].before.bytes # File(1).bytes
    /\ File(1).mtime > pr[1].before.mtime
    /\ pr[1].ret = <<233, 97>>

\* C6 as stated: with the key missing or invalid, no HTTP request is sent and
\* the cache file is neither read nor written.
C6_MissingOrInvalid ==
    \A p \in Procs :
        pr[p].env \in {Missing, BadKey} /\ pr[p].pc # "idle" =>
            /\ pr[p].reqs = 0
            /\ pr[p].touched \cap {"read", "open", "write"} = {}

\* C6: with RUNNI_GSHEET_KEY missing, get_csv fails with a KeyError before
\* any HTTP request and before any access to a cache file.
C6_Missing ==
    \A p \in Procs :
        pr[p].env = Missing /\ pr[p].pc # "idle" =>
            /\ pr[p].pc = "failed" /\ pr[p].err = "KeyError"
            /\ pr[p].reqs = 0
            /\ pr[p].touched = {}

\* The key is missing in an invocation that follows one served from the web,
\* whose cache file is there.
C6_Witness ==
    /\ pr[1].pc = "failed" /\ pr[1].env = Missing /\ pr[1].prev = "web"
    /\ \E f \in Paths : files[f].exists

\* The HTTP GET of p failed: an exception, or a status that is no success.
GetFailed(p) == pr[p].reqs >= 1 /\ pr[p].resp.status # 200

\* C9: an acquisition whose HTTP GET fails or returns a non-success status
\* fails with that error, has sent one request only, and leaves the cache
\* file as it found it.
C9_FailedGet ==
    \A p \in Procs :
        /\ pr[p].reqs <= 1
        /\ GetFailed(p) /\ pr[p].pc # "status" =>
              /\ pr[p].pc = "failed"
              /\ pr[p].err \in {"ConnectionError", "HTTPError"}
              /\ ~WroteCache(p)
              /\ File(p) = pr[p].before

\* A non-success status on an expired cache file, which stays as it was.
C9_Witness ==
    /\ pr[1].pc = "failed" /\ pr[1].err = "HTTPError"
    /\ pr[1].age >= 600
    /\ File(1).exists /\ File(1).bytes # <<>> /\ File(1) = pr[1].before

\* C10 as stated: once no invocation has the cache file open, its content is
\* that of the last writer.
C10_LastWriterWins ==
    \A f \in Paths :
        files[f].exists /\ Writers(f) = {} =>
            files[f].bytes = Encode(hist[f].last)

\* C10: nothing protects the cache file; its content is that of the last
\* writer once no invocation has it open, provided that writer opened it
\* while no other invocation had it open for writing.
C10_LastWriterAlone ==
    \A f \in Paths :
        files[f].exists /\ Writers(f) = {} /\ ~hist[f].mixed =>
            files[f].bytes = Encode(hist[f].owner)

\* A reader has returned a truncated text from the file that the other
\* invocation is still writing.
C10_Witness ==
    \E p, q \in Procs :
        /\ p # q /\ pr[p].cachepath = pr[q].cachepath
        /\ pr[q].pc = "write"
        /\ pr[p].pc = "done" /\ pr[p].via = "cache"
        /\ Len(pr[p].ret) < Len(pr[q].resp.text)
        /\ pr[p].ret = SubSeq(pr[q].resp.text, 1, Len(pr[p].ret))

=============================================================================
